---------------------------- MODULE Spec2Model ----------------------------
(***************************************************************************)
(* State-machine model of the live interview session of hireprep-ultimate: *)
(*   GeminiLiveClient  (src/services/geminiService.ts, lines 22-313)       *)
(*   InterviewGraph    (src/services/geminiService.ts, lines 327-542)      *)
(*   InterviewPage     (src/unnamed/part_000, lines 14-75)                 *)
(* Every handler of the program is one action.  An `await` of the source   *)
(* is a suspension point: the code before it and the code after it are     *)
(* separate actions, and the environment (caller, remote agent, devices,   *)
(* timers) chooses the order in which suspended code resumes.              *)
(*                                                                         *)
(* The state is kept in four records: client (fields of GeminiLiveClient), *)
(* graph (fields of InterviewGraph and of the page that owns it), net      *)
(* (what lives outside the program: connections, audio contexts, script    *)
(* processors) and obs (observations used to state the properties).        *)
(* Handlers are operators from a state record s to the state record after  *)
(* the handler, so that a handler that calls another is a composition.     *)
(***************************************************************************)
EXTENDS Integers, Sequences, FiniteSets, TLC

VARIABLES client, graph, net, obs, analysis

vars == <<client, graph, net, obs, analysis>>

----------------------------------------------------------------------------
(* Bounds of the model                                                     *)

\* startSession() invocations; invocation i opens connection i
MaxConns == 2
\* disconnect() calls that may be suspended at an await at one time
MaxPending == 2
\* save_assessment tool calls handled
MaxAssess == 4
\* length of a scratch buffer, in tokens
MaxBuf == 1
\* function calls delivered to the client of SpecAck
MaxCalls == 4
\* buffer sources created by queueAudio
MaxFrags == 3
\* how far the playback clock of an audio context is followed
MaxClockMs == 6000
\* assessments in a conversation of SpecTurn
MaxTurns == 3
\* how far the clock moves in one step of SpecVad
VadStepMs == 400
\* audio frames analysed within one window of WINDOW_MS
MaxWindow == 3
\* landmark results with a face that one run of the model delivers
MaxGaze == 3
\* how far the clock moves in one step of SpecMetrics
AnalysisStepMs == 250
\* how often the gaze of SpecGaze changes within one gaze history
MaxGazeChanges == 1

----------------------------------------------------------------------------
(* Program constants                                                       *)

\* setTimeout(..., 6000) of the termination branch
GraceDelayMs == 6000
\* `now - this.lastSpeechTime > 1200`
HangoverMs == 1200
\* how far the clock moves in one step of the model
TimeStepMs == 3000
\* the sample rate the audio context is created with
OUTPUT_SAMPLE_RATE == 24000
\* the sample rate of the frames sent to the channel
INPUT_SAMPLE_RATE == 16000
\* createScriptProcessor(4096, 1, 1): samples in a captured frame
BufferSize == 4096
\* new Int16Array(320): samples in the frame sent while silent
SilentFrameSamples == 320
\* `rms > 5`: the level from which a frame enters rmsValues
RmsFloor == 5
\* `this.rmsValues.length > 5`: frames kept in rmsValues
RmsWindow == 5
\* SILENCE_THRESHOLD of processAudioLoop
SILENCE_THRESHOLD == 15
\* WINDOW_MS of processAudioLoop
WINDOW_MS == 500
\* SILENCE_TIMEOUT of calculateAudioMetrics
SILENCE_TIMEOUT == 500
\* `this.gazeHistory.length > 20`: results kept in gazeHistory
GazeWindow == 20

ConnIds == 1..MaxConns
Null == 0

\* the four values of LiveConnectionState
LiveConnectionState == {"DISCONNECTED", "CONNECTING", "CONNECTED", "ERROR"}

\* The state record the handlers work on.
St ==
    [client |-> client, graph |-> graph, net |-> net, obs |-> obs,
     analysis |-> analysis]

Min(a, b) == IF a < b THEN a ELSE b

Max(a, b) == IF a > b THEN a ELSE b


----------------------------------------------------------------------------
(* Text.  A string is a sequence of tokens, each a blank " " or a chunk of  *)
(* non-blank text; "" is << >>.                                            *)

EmptyStr == << >>

\* String.prototype.trim(): strip the blanks at both ends
RECURSIVE TrimLeft(_)
TrimLeft(str) ==
    IF str # << >> /\ Head(str) = " " THEN TrimLeft(Tail(str)) ELSE str

RECURSIVE TrimRight(_)
TrimRight(str) ==
    IF str # << >> /\ str[Len(str)] = " "
    THEN TrimRight(SubSeq(str, 1, Len(str) - 1))
    ELSE str

Trim(str) == TrimRight(TrimLeft(str))

\* a || b on strings: the empty string and undefined are falsy
OrElse(a, b) == IF a # EmptyStr THEN a ELSE b

\* Numbers as the tool call carries them: a number, or something Number()
\* turns into NaN (undefined, a non-numeric string)
JsNum(n) == [t |-> "number", v |-> n]
JsUndefined == [t |-> "undefined", v |-> 0]

\* Number(x) || d
NumberOr(x, d) == IF x.t # "number" \/ x.v = 0 THEN d ELSE x.v

----------------------------------------------------------------------------
(* AnalysisService.  Numbers with one decimal (toFixed(1)) are kept in     *)
(* tenths: volumeStability 0..100 stands for 0.0..10.0 and pauseRatio      *)
(* 0..1000 for 0.0..100.0.                                                 *)

\* a field the object literal of currentMetrics does not have
Absent == -1

\* the RMS values of the analyser's byte spectrum the model draws from:
\* silence, above `rms > 5` only, and the loudest spectrum (all bytes 255)
RmsInputs == {0, 6, 255}

\* Math.round((Math.log10(rms + 1) / Math.log10(200)) * 100), tabulated
\* for the values of RmsInputs
LogLevel(rms) ==
    CASE rms = 0 -> 0
      [] rms = 6 -> 37
      [] rms = 255 -> 105

\* Math.max(0, Math.min(100, Math.round(level)))
AudioLevel(rms) == Max(0, Min(100, LogLevel(rms)))

RECURSIVE SumSeq(_)
SumSeq(q) == IF q = << >> THEN 0 ELSE Head(q) + SumSeq(Tail(q))

\* stability of calculateAudioMetrics, in tenths, after toFixed(1).  With
\* n values of sum S and sum of squares Q the standard deviation is
\* sqrt(n*Q - S*S)/n, and 100 - 2*sqrt(n*Q - S*S)/n rounds to 100 - m for
\* the least m with 16*(n*Q - S*S) <= (n*(2m + 1))^2.
Stability(rmsValues) ==
    IF Len(rmsValues) <= 1
    THEN 100
    ELSE LET n == Len(rmsValues)
             S == SumSeq(rmsValues)
             Q == SumSeq([k \in DOMAIN rmsValues |->
                             rmsValues[k] * rmsValues[k]])
             D == n * Q - S * S
             Fits(m) == 16 * D <= (n * (2 * m + 1)) * (n * (2 * m + 1))
         IN  IF \E m \in 0..100 : Fits(m)
             THEN 100 - (CHOOSE m \in 0..100 :
                            Fits(m) /\ \A k \in 0..(m - 1) : ~Fits(k))
             ELSE 0

\* Math.round(a / b) for a >= 0, b > 0
RoundDiv(a, b) == (2 * a + b) \div (2 * b)

\* speaking only in the tick that hears speech: no hangover
isSpeakingNow(timeSinceSpeech) == timeSinceSpeech = 0

\* `const isActuallySpeaking = timeSinceSpeech < SILENCE_TIMEOUT`
isActuallySpeaking(timeSinceSpeech) == timeSinceSpeech < SILENCE_TIMEOUT

\* calculateAudioMetrics()
calculateAudioMetrics(s) ==
    LET a == s.analysis
        s1 == [s EXCEPT !.analysis.currentMetrics.volumeStability =
                            Stability(a.rmsValues)]
        totalFrames == Len(a.speechHistory)
        speechFrames ==
            Cardinality({k \in DOMAIN a.speechHistory :
                            a.speechHistory[k].isSpeech})
    IN  IF ~isActuallySpeaking(a.sinceSpeech)
        THEN [s1 EXCEPT !.analysis.currentMetrics.speechRate = 0,
                        !.analysis.currentMetrics.pauseRatio = 1000]
        ELSE IF totalFrames > 0
        THEN [s1 EXCEPT
                 !.analysis.currentMetrics.speechRate =
                     RoundDiv(150 * speechFrames, totalFrames),
                 !.analysis.currentMetrics.pauseRatio =
                     RoundDiv(1000 * (totalFrames - speechFrames),
                              totalFrames)]
        ELSE [s1 EXCEPT !.analysis.currentMetrics.speechRate = 0,
                        !.analysis.currentMetrics.pauseRatio = 0]

\* `while (length > 0 && now - speechHistory[0].time > WINDOW_MS) shift()`
RECURSIVE DropOld(_)
DropOld(h) ==
    IF h # << >> /\ Head(h).age > WINDOW_MS THEN DropOld(Tail(h)) ELSE h

\* processAudioLoop() for a spectrum of RMS `rms`; ends with
\* requestAnimationFrame(() => this.processAudioLoop())
processAudioLoop(s, rms) ==
    IF ~s.analysis.isRunning \/ ~s.analysis.analyser
    THEN s
    ELSE LET isSpeech == rms > SILENCE_THRESHOLD
             pushed == IF rms > RmsFloor
                       THEN Append(s.analysis.rmsValues, rms)
                       ELSE s.analysis.rmsValues
             s1 == [s EXCEPT
                      !.analysis.currentMetrics.audioLevel = AudioLevel(rms),
                      !.analysis.rmsValues =
                          IF Len(pushed) > RmsWindow THEN Tail(pushed)
                          ELSE pushed,
                      !.analysis.sinceSpeech = IF isSpeech THEN 0 ELSE @,
                      !.analysis.speechHistory =
                          DropOld(Append(@, [age |-> 0,
                                             isSpeech |-> isSpeech]))]
             s2 == calculateAudioMetrics(s1)
         IN  [s2 EXCEPT !.analysis.audioFrames = @ + 1]

\* initAudio(stream).  The first processAudioLoop() reads the spectrum of
\* an analyser that has not processed any audio yet: all zero.
initAudio(s) ==
    LET s0 == [s EXCEPT !.analysis.afterStop = FALSE]
    IN  IF s0.analysis.audioContext
        THEN s0
        ELSE processAudioLoop(
                 [s0 EXCEPT !.analysis.audioContext = TRUE,
                            !.analysis.analyser = TRUE,
                            !.analysis.isRunning = TRUE], 0)

\* stop(); lastSpeechTimestamp = 0 puts the last speech out of every window
stop(s) ==
    [s EXCEPT !.analysis.isRunning = FALSE,
              !.analysis.audioContext = FALSE,
              !.analysis.rmsValues = << >>,
              !.analysis.gazeHistory = << >>,
              !.analysis.speechHistory = << >>,
              !.analysis.sinceSpeech = SILENCE_TIMEOUT,
              !.analysis.afterStop = TRUE]

\* a landmark result: whether it has a face and what checkGaze returns
\* for the face's landmarks
Faces == { [face |-> FALSE, isLooking |-> FALSE],
           [face |-> TRUE, isLooking |-> FALSE],
           [face |-> TRUE, isLooking |-> TRUE] }

\* the share of looking frames as a percentage, without the penalty
EyeContactUnpenalised(lookingCount, total) ==
    (200 * lookingCount + total) \div (2 * total)

\* eyeContactScore of onFaceResults, rounded: 100*l/t, and 100*(l/t)^2
\* when l/t is below THRESHOLD = 0.75
EyeContact(lookingCount, total) ==
    IF 4 * lookingCount < 3 * total
    THEN RoundDiv(100 * lookingCount * lookingCount, total * total)
    ELSE RoundDiv(100 * lookingCount, total)

\* the confidence of a listener, whatever the speech rate
ConfidenceEyeOnly(m) == m.eyeContact

\* the confidence of onFaceResults for the metrics m
Confidence(m) ==
    IF m.speechRate > 0
    THEN LET paceScore == IF m.speechRate < 80 THEN 60
                          ELSE IF m.speechRate > 180 THEN 70 ELSE 100
         IN  RoundDiv(4 * m.eyeContact + 3 * m.volumeStability
                          + 3 * paceScore, 10)
    ELSE m.eyeContact

\* onFaceResults(results)
onFaceResults(s, results) ==
    IF results.face
    THEN LET pushed == Append(s.analysis.gazeHistory, results.isLooking)
             hist == IF Len(pushed) > GazeWindow THEN Tail(pushed) ELSE pushed
             lookingCount == Cardinality({k \in DOMAIN hist : hist[k]})
             s1 == [s EXCEPT !.analysis.gazeHistory = hist,
                             !.analysis.currentMetrics.eyeContact =
                                 EyeContact(lookingCount, Len(hist))]
         IN  [s1 EXCEPT !.analysis.currentMetrics.confidence =
                            Confidence(s1.analysis.currentMetrics)]
    ELSE [s EXCEPT !.analysis.currentMetrics.eyeContact = 0,
                   !.analysis.currentMetrics.confidence = 0]

\* processFrame of initVideo, up to `await this.faceMesh.send` or to
\* requestAnimationFrame(processFrame); readyState is the video element's
processFrame(s, readyState) ==
    IF ~s.analysis.isRunning
    THEN s
    ELSE IF readyState = 4
    THEN [s EXCEPT !.analysis.sends = @ + 1]
    ELSE [s EXCEPT !.analysis.videoFrames = @ + 1]

\* initVideo(videoElement); loaded: window.FaceMesh is there
initVideo(s, loaded, readyState) ==
    IF ~loaded \/ readyState < 2
    THEN [s EXCEPT !.analysis.retries = @ + 1]
    ELSE processFrame([s EXCEPT !.analysis.faceMesh = TRUE,
                                !.analysis.isRunning = TRUE], readyState)

----------------------------------------------------------------------------
(* GeminiLiveClient                                                        *)

\* ws.readyState === WebSocket.OPEN: the socket has opened and neither end
\* has started closing it
ReadyStateOpen(s, w) == s.net.conn[w] = "open" /\ w \notin s.net.closeReq

\* One entry of obs.ev: an effect of the running handler that is visible
\* outside the program, with the connection state published at that moment
\* and whether disconnect() had been called with no connect since.
Effect(s, kind, call, frame) ==
    [kind |-> kind, state |-> s.graph.connectionState, quiet |-> s.obs.quiet,
     call |-> call, frame |-> frame]

\* the function call an effect is about: id and name
CallTag(id, name) == [id |-> id, name |-> name]
NoCall == CallTag(Null, "")

\* the audio frame an effect carries: its number of 16-bit samples and
\* whether every sample is zero
Frame(samples, zero) == [samples |-> samples, zero |-> zero]
NoFrame == Frame(Null, TRUE)

EmitFor(s, kind, call) ==
    [s EXCEPT !.obs.ev = Append(@, Effect(s, kind, call, NoFrame))]

Emit(s, kind) == EmitFor(s, kind, NoCall)

EmitFrame(s, kind, frame) ==
    [s EXCEPT !.obs.ev = Append(@, Effect(s, kind, NoCall, frame))]

\* safeSend without the test of the open flag
safeSendUnflagged(s, kind, frame) ==
    IF s.client.session = Null \/ s.client.ws = Null
    THEN s
    ELSE IF ~ReadyStateOpen(s, s.client.ws)
    THEN s
    ELSE EmitFrame(s, kind, frame)

\* safeSend(data): the only call of session.sendRealtimeInput
safeSend(s, kind, frame) ==
    IF ~s.client.isSessionOpen \/ s.client.session = Null \/ s.client.ws = Null
    THEN s
    ELSE IF ~ReadyStateOpen(s, s.client.ws)
    THEN s
    ELSE EmitFrame(s, kind, frame)

sendControlMessage(s, kind) == safeSend(s, kind, NoFrame)

stopAudioInput(s) ==
    IF s.client.inputProcessor # Null
    THEN [s EXCEPT !.net.procs = @ \ {s.client.inputProcessor},
                   !.net.procCtx[s.client.inputProcessor] = Null,
                   !.client.inputProcessor = Null]
    ELSE s

\* the flush that stops the sources and keeps the queue
stopAudioQueue(s) ==
    [s EXCEPT !.net.sources =
                  [k \in DOMAIN @ |->
                      IF \E q \in DOMAIN s.client.audioQueue :
                             s.client.audioQueue[q] = k
                      THEN [@[k] EXCEPT !.status = "stopped"]
                      ELSE @[k]]]

\* source.stop() on every element of the playback queue, then
\* `this.audioQueue = []`
flushAudioQueue(s) ==
    [s EXCEPT !.net.sources =
                  [k \in DOMAIN @ |->
                      IF \E q \in DOMAIN s.client.audioQueue :
                             s.client.audioQueue[q] = k
                      THEN [@[k] EXCEPT !.status = "stopped"]
                      ELSE @[k]],
              !.client.audioQueue = << >>]

\* disconnect(), resumed after `await this.audioContext.close()`: its last
\* statement, after which the call has completed
disconnectAfterCtxClose(s) ==
    Emit([s EXCEPT !.client.audioContext = Null], "disconnected")

\* disconnect(), from `this.session = null` to the await of
\* audioContext.close() (or to the end when there is no audio context)
disconnectAfterClose(s) ==
    LET s1 == flushAudioQueue(
                  [s EXCEPT !.client.session = Null, !.client.ws = Null])
    IN  IF s1.client.audioContext # Null
        THEN [s1 EXCEPT !.net.ctxClosed = @ \cup {s1.client.audioContext},
                        !.client.awaitCtxClose = @ + 1]
        ELSE Emit(s1, "disconnected")

\* disconnect(), from its first line to its first await
disconnect(s) ==
    LET s1 == stopAudioInput(s)
        s2 == [s1 EXCEPT !.client.isSessionOpen = FALSE, !.obs.quiet = TRUE]
    IN  IF s2.client.session # Null
        THEN [s2 EXCEPT !.net.closeReq = @ \cup {s2.client.session},
                        !.client.awaitClose = @ + 1]
        ELSE disconnectAfterClose(s2)

\* the disconnect() calls suspended in x beyond those suspended in `base`
\* resume, first from the await of session.close(), then from the await
\* of audioContext.close(), until none of them is left (at most two)
Settle(x, base) ==
    LET afterClose(y) ==
            IF y.client.awaitClose > base.client.awaitClose
            THEN disconnectAfterClose([y EXCEPT !.client.awaitClose = @ - 1])
            ELSE y
        afterCtxClose(y) ==
            IF y.client.awaitCtxClose > base.client.awaitCtxClose
            THEN disconnectAfterCtxClose(
                     [y EXCEPT !.client.awaitCtxClose = @ - 1])
            ELSE y
    IN  afterCtxClose(afterCtxClose(afterClose(afterClose(x))))

\* `await disconnect()`: the call with both of its awaits resumed
disconnectToEnd(s) == Settle(disconnect(s), s)

\* connect(config), from its first line to `await this.ai.live.connect`;
\* the call made by invocation i creates audio context i and connection i
connect(s, i) ==
    LET s1 == disconnect(s)
    IN  [s1 EXCEPT !.client.audioContext = i,
                   !.net.conn[i] = "pending",
                   !.obs.quiet = FALSE]

\* downsample(buffer, inputRate, outputRate): the length of its result for
\* a buffer of n samples, Math.floor(n / (inputRate / outputRate))
downsample(n, inputRate, outputRate) == (n * outputRate) \div inputRate

\* the hangover test that also ends speech at exactly the interval
HangoverReached(since) == since >= HangoverMs

\* `now - this.lastSpeechTime > 1200`
HangoverElapsed(since) == since > HangoverMs

\* The onaudioprocess handler installed by startAudioInput, for one
\* captured frame of BufferSize samples; loud: the frame's RMS exceeds
\* 0.02.  sinceSpeech is now - this.lastSpeechTime, kept only up to the
\* first value above HangoverMs.
onaudioprocess(s, loud) ==
    IF ~s.client.isSessionOpen \/ s.client.session = Null
    THEN s
    ELSE LET s0 == Emit(s, IF loud THEN "loudTick" ELSE "quietTick")
             s1 == IF loud
                   THEN [s0 EXCEPT !.client.isSpeaking = TRUE,
                                   !.client.sinceSpeech = 0]
                   ELSE s0
             s2 == IF HangoverElapsed(s1.client.sinceSpeech)
                   THEN [s1 EXCEPT !.client.isSpeaking = FALSE]
                   ELSE s1
         IN  IF s2.client.isSpeaking
             THEN IF s2.client.audioContext = Null
                  THEN s2   \* this.audioContext!.sampleRate throws; caught
                  ELSE safeSend(s2, "speech",
                           Frame(downsample(BufferSize, OUTPUT_SAMPLE_RATE,
                                            INPUT_SAMPLE_RATE), FALSE))
             ELSE safeSend(s2, "silence", Frame(SilentFrameSamples, TRUE))

\* startAudioInput(stream); the script processor made by invocation i is i
startAudioInput(s, i) ==
    IF s.client.audioContext = Null
    THEN s
    ELSE [s EXCEPT !.client.inputProcessor = i,
                   !.net.procs = @ \cup {i},
                   !.net.procCtx[i] = s.client.audioContext]

----------------------------------------------------------------------------
(* InterviewPage                                                           *)

\* The page's `state` as the handleEndSession closure given to the graph
\* sees it: the closure is the one of the render that ran the mount effect,
\* and in that render `state` is the initial useState(null).
MountPageState == [present |-> FALSE, analyses |-> << >>, transcript |-> << >>]

\* handleEndSession, with the `state` its closure holds
handleEndSession(s, pageState) ==
    IF pageState.present
    THEN [s EXCEPT !.obs.received =
                       Append(@, [analyses |-> pageState.analyses,
                                  transcript |-> pageState.transcript])]
    ELSE s

----------------------------------------------------------------------------
(* InterviewGraph                                                          *)

\* totalQs with breakpoints that the duration has to exceed
TotalQuestionsAbove(duration) ==
    IF duration > 30 THEN 7 ELSE IF duration > 20 THEN 5 ELSE 3

\* totalQs of the constructor
TotalQuestions(duration) ==
    IF duration >= 30 THEN 7 ELSE IF duration >= 20 THEN 5 ELSE 3

updateConnectionState(s, v) == [s EXCEPT !.graph.connectionState = v]

\* events.onOpen / onClose / onError given to the client by the constructor
onOpen(s) == updateConnectionState(s, "CONNECTED")
onClose(s) == updateConnectionState(s, "DISCONNECTED")
\* events.onError that reports a closed channel
onErrorAsClosed(s) == updateConnectionState(s, "DISCONNECTED")

onError(s) == updateConnectionState(s, "ERROR")

\* events.onTranscript(text, false, false)
onTranscript(s, text) ==
    LET buf == s.graph.aiTextBuffer \o text
    IN  [s EXCEPT !.graph.aiTextBuffer = buf,
                  !.graph.currentQuestionText = buf]

\* recognition.start() inside try/catch: it throws, and changes nothing,
\* while the recognizer is started or has not yet reported its end
recognitionStart(s) ==
    IF s.graph.recognizing \/ s.graph.recognitionEnding
    THEN s
    ELSE [s EXCEPT !.graph.recognizing = TRUE]

\* recognition.stop(): a started recognizer stops and will report its end
recognitionStop(s) ==
    IF s.graph.recognizing
    THEN [s EXCEPT !.graph.recognizing = FALSE,
                   !.graph.recognitionEnding = TRUE]
    ELSE s

\* recognition.onend that starts the recognizer again in every state
onendAlways(s) == recognitionStart(s)

\* recognition.onend
onend(s) ==
    IF s.graph.connectionState = "CONNECTED" THEN recognitionStart(s) ELSE s

\* toggleMic(muted)
toggleMic(s, muted) ==
    IF muted THEN recognitionStop(stopAudioInput(s)) ELSE s

\* a result of a recognition event: its transcript and whether it is final
Segment(transcript, isFinal) ==
    [transcript |-> transcript, isFinal |-> isFinal]

\* what the loop of recognition.onresult appends to userTranscriptBuffer
\* when it appends every result
RECURSIVE EveryTranscript(_)
EveryTranscript(results) ==
    IF results = << >>
    THEN EmptyStr
    ELSE Head(results).transcript \o <<" ">> \o EveryTranscript(Tail(results))

\* what the loop of recognition.onresult appends to userTranscriptBuffer:
\* `transcript + " "` for every final result
RECURSIVE FinalTranscript(_)
FinalTranscript(results) ==
    IF results = << >>
    THEN EmptyStr
    ELSE (IF Head(results).isFinal
          THEN Head(results).transcript \o <<" ">>
          ELSE EmptyStr) \o FinalTranscript(Tail(results))

\* interimTranscript of recognition.onresult
RECURSIVE InterimTranscript(_)
InterimTranscript(results) ==
    IF results = << >>
    THEN EmptyStr
    ELSE (IF Head(results).isFinal
          THEN EmptyStr
          ELSE Head(results).transcript) \o InterimTranscript(Tail(results))

\* recognition.onresult(event), results: event.results from resultIndex on
onresult(s, results) ==
    LET s1 == [s EXCEPT !.graph.userTranscriptBuffer =
                            @ \o FinalTranscript(results)]
    IN  IF InterimTranscript(results) # EmptyStr
        THEN [s1 EXCEPT !.graph.realtimeInputText =
                            InterimTranscript(results)]
        ELSE s1

\* realQuestion of handleAssessment
RealQuestion(s, args) ==
    OrElse(args.full_question_text,
           OrElse(s.graph.currentQuestionText,
                  OrElse(args.question_topic, <<"Interview Question">>)))

\* rawUserAnswer of handleAssessment
RawUserAnswer(s, args) ==
    IF Len(Trim(s.graph.userTranscriptBuffer)) > 0
    THEN Trim(s.graph.userTranscriptBuffer)
    ELSE OrElse(args.user_answer_summary, <<"(No audio response detected)">>)

\* newAnalysis of handleAssessment
NewAnalysis(s, args) ==
    [questionId |-> Len(s.graph.analyses) + 1,
     questionText |-> RealQuestion(s, args),
     userAnswer |-> RawUserAnswer(s, args),
     metrics |-> s.analysis.currentMetrics,
     contentScore |-> NumberOr(args.content_score, 5),
     deliveryScore |-> NumberOr(args.delivery_score, 5)]

\* handleAssessment that logs the candidate's answer only
handleAssessmentAnswerOnly(s, args) ==
    [s EXCEPT !.graph.analyses = Append(@, NewAnalysis(s, args)),
              !.graph.transcript =
                  @ \o << [role |-> "user", text |-> RawUserAnswer(s, args)] >>]

\* handleAssessment(args), args an object
handleAssessment(s, args) ==
    [s EXCEPT !.graph.analyses = Append(@, NewAnalysis(s, args)),
              !.graph.transcript =
                  @ \o << [role |-> "ai", text |-> RealQuestion(s, args)],
                          [role |-> "user", text |-> RawUserAnswer(s, args)] >>]

\* `this.state.currentQuestionIndex >= this.state.totalQuestions`
ReachedEnd(s) == s.graph.currentQuestionIndex >= s.graph.totalQuestions

\* the termination branch of events.onToolCall: the wrap-up control message,
\* then setTimeout
wrapUp(s) ==
    LET s1 == Emit(s, "wrapUpCall")
        s2 == sendControlMessage(s1, "wrapUp")
    IN  [s2 EXCEPT !.graph.timers = Append(@, 0)]

\* With args undefined handleAssessment throws at its first property read
\* and the rest of events.onToolCall is skipped.
Throws(name, args) == name = "save_assessment" /\ ~args.defined

\* A note of what a handled save_assessment was given: the two scratch
\* buffers as they were when the call arrived (in `before`) and the
\* arguments.  The note of the final segments heard starts again.
Saved(s, before, args) ==
    [s EXCEPT !.obs.saved =
                  Append(@, [aiTextBuffer |-> before.graph.aiTextBuffer,
                             userTranscriptBuffer |->
                                 before.graph.userTranscriptBuffer,
                             args |-> args]),
              !.obs.said = EmptyStr]

\* events.onToolCall(name, args)
onToolCall(s, name, args) ==
    IF name # "save_assessment"
    THEN s
    ELSE IF Throws(name, args)
    THEN s
    ELSE LET s1 == handleAssessment(s, args)
             s2 == [s1 EXCEPT !.graph.aiTextBuffer = EmptyStr,
                              !.graph.userTranscriptBuffer = EmptyStr,
                              !.graph.realtimeInputText = EmptyStr,
                              !.graph.currentQuestionIndex = @ + 1]
         IN  IF ReachedEnd(s2) THEN wrapUp(s2) ELSE s2

\* stopSession()
stopSession(s) ==
    LET s1 == stop(disconnect(s))
        s2 == recognitionStop(s1)
        s3 == updateConnectionState(s2, "DISCONNECTED")
    IN  [s3 EXCEPT !.obs.stopped = TRUE]

\* a timer that may fire at once
TimerDueAtOnce(age) == age >= 0

\* `age` milliseconds after setTimeout(f, 6000), f may run
TimerDue(age) == age >= GraceDelayMs

\* the function given to setTimeout by the termination branch
graceTimeout(s) ==
    LET s1 == stopSession(s)
        s2 == Emit(s1, "onEnd")
    IN  handleEndSession([s2 EXCEPT !.obs.onEndCalls = @ + 1], MountPageState)

\* fromBase64(base64): the number of 16-bit samples in a fragment of
\* `bytes` bytes; -1 when `new Int16Array(bytes.buffer)` throws because the
\* byte length is odd
fromBase64(bytes) == IF bytes % 2 = 1 THEN -1 ELSE bytes \div 2

\* audioBuffer.duration of createBuffer(1, samples, OUTPUT_SAMPLE_RATE),
\* in milliseconds
Duration(samples) == (samples * 1000) \div OUTPUT_SAMPLE_RATE

\* queueAudio that starts every buffer at the current playback clock
queueAudioAtClock(s, bytes) ==
    IF s.client.audioContext = Null \/ ~s.client.isSessionOpen
    THEN s
    ELSE IF fromBase64(bytes) <= 0
    THEN s
    ELSE LET t == s.net.ctxTime[s.client.audioContext]
             source == [ctx |-> s.client.audioContext, at |-> t,
                        start |-> t,
                        duration |-> Duration(fromBase64(bytes)),
                        status |-> "scheduled"]
             s1 == [s EXCEPT !.net.sources = Append(@, source),
                             !.client.nextStartTime = t + source.duration,
                             !.client.audioQueue =
                                 Append(@, Len(s.net.sources) + 1)]
         IN  Emit(s1, "onAudioData")

\* queueAudio(base64Data) for a fragment of `bytes` bytes.  An odd byte
\* length makes fromBase64 throw and an empty fragment makes createBuffer
\* throw; the catch block swallows both.
queueAudio(s, bytes) ==
    IF s.client.audioContext = Null \/ ~s.client.isSessionOpen
    THEN s
    ELSE IF fromBase64(bytes) <= 0
    THEN s
    ELSE LET t == s.net.ctxTime[s.client.audioContext]
             start == Max(s.client.nextStartTime, t)
             source == [ctx |-> s.client.audioContext, at |-> t,
                        start |-> start,
                        duration |-> Duration(fromBase64(bytes)),
                        status |-> "scheduled"]
             s1 == [s EXCEPT !.net.sources = Append(@, source),
                             !.client.nextStartTime = start + source.duration,
                             !.client.audioQueue =
                                 Append(@, Len(s.net.sources) + 1)]
         IN  Emit(s1, "onAudioData")

\* source.onended of the k-th buffer source
onended(s, k) ==
    [s EXCEPT !.net.sources[k].status = "ended",
              !.client.audioQueue = SelectSeq(@, LAMBDA q : q # k)]

\* safeHandleMessage(message) of the client, for a message that carries
\* one audio part, one text part or one function call
safeHandleMessage(s, msg) ==
    IF ~s.client.isSessionOpen
    THEN s
    ELSE IF msg.kind = "audio"
    THEN queueAudio(s, msg.bytes)
    ELSE IF msg.kind = "text"
    THEN onTranscript(s, msg.text)
    ELSE onToolCall(EmitFor(s, "toolCall", CallTag(msg.id, msg.name)),
                    msg.name, msg.args)

----------------------------------------------------------------------------
(* The client that acknowledges function calls.  The repository holds a    *)
(* second GeminiLiveClient whose disconnect() has no await and whose       *)
(* handleToolCall answers each call with session.sendToolResponse; the     *)
(* graph drives it through the same LiveClientEvents.                      *)

\* disconnect() of that client
disconnectP4(s) ==
    LET s1 == stopAudioInput(s)
        s2 == [s1 EXCEPT !.client.isSessionOpen = FALSE, !.obs.quiet = TRUE]
        s3 == IF s2.client.session # Null
              THEN [s2 EXCEPT !.net.closeReq = @ \cup {s2.client.session}]
              ELSE s2
        s4 == flushAudioQueue([s3 EXCEPT !.client.session = Null])
    IN  IF s4.client.audioContext # Null
        THEN [s4 EXCEPT !.net.ctxClosed = @ \cup {s4.client.audioContext},
                        !.client.audioContext = Null]
        ELSE s4

\* connect(config) of that client up to `await this.connectPromise`
connectP4(s, i) ==
    LET s1 == disconnectP4(s)
    IN  [s1 EXCEPT !.client.audioContext = i, !.net.conn[i] = "pending",
                   !.obs.quiet = FALSE]

\* the statements of handleToolCall after `await this.events.onToolCall`
sendToolResponse(s, call) ==
    IF s.client.session # Null /\ s.client.isSessionOpen
    THEN LET s1 == EmitFor(s, "ack", CallTag(call.id, call.name))
         IN  [s1 EXCEPT !.obs.acked = Append(@, CallTag(call.id, call.name))]
    ELSE s

\* the graph's handler for one function call, with a note of the call
\* that produced each entry of the assessment log
runOnToolCall(s, call) ==
    LET s1 == onToolCall(s, call.name, call.args)
    IN  IF Len(s1.graph.analyses) > Len(s.graph.analyses)
        THEN [s1 EXCEPT !.obs.savedBy = Append(@, call.id)]
        ELSE s1

\* handleToolCall that answers before it calls the handler
handleToolCallAckFirst(s, call) ==
    IF ~s.client.isSessionOpen
    THEN s
    ELSE LET s1 == EmitFor(s, "toolCall", CallTag(call.id, call.name))
             s2 == sendToolResponse(s1, call)
         IN  IF Throws(call.name, call.args) THEN s2 ELSE runOnToolCall(s2, call)

\* handleToolCall(toolCall) for a message with one function call, up to the
\* point where `await this.events.onToolCall(...)` suspends it; a handler
\* that throws takes it to the catch block
handleToolCall(s, call) ==
    IF ~s.client.isSessionOpen
    THEN s
    ELSE LET s1 == EmitFor(s, "toolCall", CallTag(call.id, call.name))
         IN  IF Throws(call.name, call.args)
             THEN s1
             ELSE [runOnToolCall(s1, call) EXCEPT
                       !.client.awaitTool = Append(@, call)]

\* handleServerMessage(message) for a message that carries one text part
\* or one function call
handleServerMessage(s, msg) ==
    IF ~s.client.isSessionOpen
    THEN s
    ELSE IF msg.kind = "text"
    THEN onTranscript(s, msg.text)
    ELSE handleToolCall(s, msg)

\* stopSession() of the graph over that client
stopSessionP4(s) ==
    LET s1 == stop(disconnectP4(s))
        s2 == recognitionStop(s1)
        s3 == updateConnectionState(s2, "DISCONNECTED")
    IN  [s3 EXCEPT !.obs.stopped = TRUE]

\* the function given to setTimeout, over that client
graceTimeoutP4(s) ==
    LET s1 == stopSessionP4(s)
        s2 == Emit(s1, "onEnd")
    IN  handleEndSession([s2 EXCEPT !.obs.onEndCalls = @ + 1], MountPageState)

----------------------------------------------------------------------------
(* Inputs                                                                  *)

Durations == {10}

\* config.duration at and around the breakpoints of the constructor
AllDurations == {10, 19, 20, 29, 30}

Args(q, topic, summary, content, delivery) ==
    [defined |-> TRUE, full_question_text |-> q, question_topic |-> topic,
     user_answer_summary |-> summary, content_score |-> content,
     delivery_score |-> delivery]

\* a tool call without an argument object
NoArgs == [Args(EmptyStr, EmptyStr, EmptyStr, JsUndefined, JsUndefined)
               EXCEPT !.defined = FALSE]

FullArgs == Args(<<"Q">>, <<"topic">>, <<"summary">>, JsNum(7), JsNum(8))

\* a message with one function call; the remote agent chooses the id
ToolCall(name, args) ==
    [kind |-> "toolCall", id |-> 1, name |-> name, args |-> args]

\* the tool calls of Spec: one well-formed save_assessment, one without
\* arguments, one call of a tool the graph does not know
ToolCalls ==
    { ToolCall("save_assessment", FullArgs),
      ToolCall("save_assessment", NoArgs),
      ToolCall("other", NoArgs) }

\* a save_assessment whose optional fields are all missing or unusable
BareArgs == Args(EmptyStr, EmptyStr, EmptyStr, JsUndefined, JsNum(0))

GraphToolCalls == ToolCalls \cup {ToolCall("save_assessment", BareArgs)}

\* save_assessment calls with every optional text; with the answer summary
\* only, a negative score and a score above ten; and with no text, a
\* missing score and a zero score
TurnToolCalls ==
    { ToolCall("save_assessment", FullArgs),
      ToolCall("save_assessment",
               Args(EmptyStr, EmptyStr, <<"summary">>, JsNum(-3), JsNum(11))),
      ToolCall("save_assessment", BareArgs) }

\* a message with one text part
TextMessages == {[kind |-> "text", text |-> <<"q">>]}

FinalSegments == {<<"a">>}

\* recognition events with one final result
FinalResults == { << Segment(seg, TRUE) >> : seg \in FinalSegments }

\* recognition events: a final result, an interim one, a final one of
\* blanks only, and an interim result followed by a final one
SpeechEvents ==
    { << Segment(<<"a">>, TRUE) >>,
      << Segment(<<"um">>, FALSE) >>,
      << Segment(<<" ">>, TRUE) >>,
      << Segment(<<"um">>, FALSE), Segment(<<"b">>, TRUE) >> }

\* messages with one audio part: the byte length of the decoded fragment
\* (one second, two seconds, empty, a torn sample)
AudioMessages ==
    { [kind |-> "audio", bytes |-> b] : b \in {48000, 96000, 0, 3} }

\* a message with one audio part of one second
OneSecondAudio == { [kind |-> "audio", bytes |-> 48000] }

----------------------------------------------------------------------------
(* Initial state: the page has constructed the graph and its client        *)

InitWith(durations) ==
    /\ client = [session |-> Null, ws |-> Null, audioContext |-> Null,
                 inputProcessor |-> Null, isSessionOpen |-> FALSE,
                 isSpeaking |-> FALSE, sinceSpeech |-> HangoverMs + 1,
                 awaitClose |-> 0, awaitCtxClose |-> 0, awaitTool |-> << >>,
                 audioQueue |-> << >>, nextStartTime |-> 0]
    /\ \E d \in durations :
         graph = [connectionState |-> "DISCONNECTED",
                  duration |-> d,
                  totalQuestions |-> TotalQuestions(d),
                  currentQuestionIndex |-> 0,
                  analyses |-> << >>, transcript |-> << >>,
                  currentQuestionText |-> <<"Waiting for interviewer...">>,
                  aiTextBuffer |-> EmptyStr,
                  userTranscriptBuffer |-> EmptyStr,
                  realtimeInputText |-> EmptyStr,
                  recognizing |-> FALSE, recognitionEnding |-> FALSE,
                  timers |-> << >>,
                  startPc |-> [i \in ConnIds |-> "idle"]]
    /\ net = [conn |-> [c \in ConnIds |-> "none"], closeReq |-> {},
              ctxClosed |-> {}, procs |-> {},
              procCtx |-> [p \in ConnIds |-> Null],
              faceMeshLoaded |-> FALSE,
              sources |-> << >>, ctxTime |-> [c \in ConnIds |-> 0]]
    /\ obs = [ev |-> << >>, quiet |-> FALSE, stopped |-> FALSE,
              onEndCalls |-> 0, received |-> << >>,
              called |-> 0, acked |-> << >>, savedBy |-> << >>,
              saved |-> << >>, said |-> EmptyStr, closing |-> 0,
              replaced |-> {}, armedBefore |-> {}]
    /\ analysis =
         [audioContext |-> FALSE, analyser |-> FALSE, faceMesh |-> FALSE,
          isRunning |-> FALSE,
          speechHistory |-> << >>, rmsValues |-> << >>,
          sinceSpeech |-> SILENCE_TIMEOUT, gazeHistory |-> << >>,
          currentMetrics |->
              [speechRate |-> 0, pauseRatio |-> 0, volumeStability |-> 100,
               eyeContact |-> 100, confidence |-> 100, clarity |-> 8,
               audioLevel |-> Absent],
          audioFrames |-> 0, videoFrames |-> 0, sends |-> 0, retries |-> 0,
          videoChecked |-> {}, afterStop |-> FALSE]

\* The page constructs the graph for an interview of the short format.
Init == InitWith(Durations)

\* The page constructs the graph for an interview of any format.
InitAnyDuration == InitWith(AllDurations)

\* Every handler starts with an empty list of effects.
Begin == [St EXCEPT !.obs.ev = << >>]

Becomes(s) ==
    /\ client' = s.client
    /\ graph' = s.graph
    /\ net' = s.net
    /\ obs' = s.obs
    /\ analysis' = s.analysis

\* a disconnect() may be called: the model bounds those suspended at once
MayDisconnect == client.awaitClose + client.awaitCtxClose < MaxPending

----------------------------------------------------------------------------
(* Actions                                                                 *)

\* The caller calls startSession(): runs to `await getUserMedia(...)`.
StartSession(i) ==
    /\ graph.startPc[i] = "idle"
    /\ \A j \in ConnIds : j < i => graph.startPc[j] # "idle"
    /\ LET s1 == updateConnectionState(Begin, "CONNECTING")
       IN  Becomes([s1 EXCEPT !.graph.startPc[i] = "media",
                              !.obs.quiet = FALSE, !.obs.stopped = FALSE])

\* getUserMedia resolves: initAudio, recognition.start(), then connect()
\* up to its await.
MediaGranted(i) ==
    /\ graph.startPc[i] = "media"
    /\ MayDisconnect
    /\ LET s1 == recognitionStart(initAudio(Begin))
           s2 == connect(s1, i)
       IN  Becomes([s2 EXCEPT !.graph.startPc[i] = "connect"])

\* getUserMedia rejects and startSession() goes on all the same
MediaDeniedConnects(i) ==
    /\ graph.startPc[i] = "media"
    /\ MayDisconnect
    /\ LET s1 == connect(Begin, i)
           s2 == startAudioInput(s1, i)
       IN  Becomes(Emit([s2 EXCEPT !.graph.startPc[i] = "failed"],
                        "startSessionRejected"))

\* getUserMedia rejects: startSession() rejects with the device error.
MediaDenied(i) ==
    /\ graph.startPc[i] = "media"
    /\ Becomes(Emit([Begin EXCEPT !.graph.startPc[i] = "failed"],
                    "startSessionRejected"))

\* callbacks.onopen of connection c
OnOpen(c) ==
    /\ net.conn[c] = "pending"
    /\ LET s1 == [Begin EXCEPT !.net.conn[c] = "open",
                               !.client.isSessionOpen = TRUE]
       IN  Becomes(onOpen(s1))

\* `await this.ai.live.connect` resolves for invocation i: the rest of
\* connect(), then startSession() goes on to startAudioInput(stream).
ConnectResolved(i) ==
    /\ graph.startPc[i] = "connect"
    /\ net.conn[i] \in {"open", "closed"}
    /\ LET s1 == [Begin EXCEPT !.client.session = i, !.client.ws = i]
           s2 == startAudioInput(s1, i)
       IN  Becomes([s2 EXCEPT !.graph.startPc[i] = "done"])

\* `await this.ai.live.connect` rejects: the catch block, then
\* startSession() goes on to startAudioInput(stream).
ConnectRejected(i) ==
    /\ graph.startPc[i] = "connect"
    /\ net.conn[i] = "pending"
    /\ LET s1 == [Begin EXCEPT !.net.conn[i] = "failed"]
           s2 == onError(s1)
           s3 == startAudioInput(s2, i)
       IN  Becomes([s3 EXCEPT !.graph.startPc[i] = "done"])

\* callbacks.onclose of connection c
OnClose(c) ==
    /\ net.conn[c] = "open"
    /\ LET s1 == [Begin EXCEPT !.net.conn[c] = "closed",
                               !.net.closeReq = @ \ {c},
                               !.client.isSessionOpen = FALSE]
       IN  Becomes(onClose(s1))

\* callbacks.onerror of connection c
OnError(c) ==
    /\ net.conn[c] = "open"
    /\ LET s1 == [Begin EXCEPT !.client.isSessionOpen = FALSE]
       IN  Becomes(Emit(onError(s1), "onerror"))

\* callbacks.onmessage of connection c
OnMessage(c, msg) ==
    /\ net.conn[c] = "open"
    /\ Len(graph.analyses) < MaxAssess
    /\ msg.kind = "text" => Len(graph.aiTextBuffer) < MaxBuf
    /\ msg.kind = "audio" => Len(net.sources) < MaxFrags
    /\ Becomes(safeHandleMessage(Begin, msg))

\* the transcripts of the final results of an event, a blank after each
RECURSIVE Spoken(_)
Spoken(results) ==
    IF results = << >>
    THEN EmptyStr
    ELSE IF Head(results).isFinal
    THEN Head(results).transcript \o <<" ">> \o Spoken(Tail(results))
    ELSE Spoken(Tail(results))

\* recognition.onresult with the results `results`
OnSpeechResult(results) ==
    /\ graph.recognizing
    /\ Len(graph.userTranscriptBuffer) < MaxBuf
    /\ Becomes(onresult(Begin, results))

\* a disconnect() suspended at `await this.session.close()` resumes
ResumeAfterClose ==
    /\ client.awaitClose > 0
    /\ Becomes(disconnectAfterClose([Begin EXCEPT !.client.awaitClose = @ - 1]))

\* a disconnect() suspended at `await this.audioContext.close()` resumes
ResumeAfterCtxClose ==
    /\ client.awaitCtxClose > 0
    /\ Becomes(disconnectAfterCtxClose(
                   [Begin EXCEPT !.client.awaitCtxClose = @ - 1]))

\* The caller calls stopSession().
StopSession ==
    /\ MayDisconnect
    /\ Becomes(stopSession(Begin))

\* The caller calls nextTopic().
NextTopic ==
    /\ Becomes(sendControlMessage(Begin, "nextTopic"))

\* The script processor p delivers a captured frame.
CaptureTick(p, loud) ==
    /\ p \in net.procs
    /\ net.procCtx[p] \notin net.ctxClosed
    /\ Becomes(onaudioprocess(Begin, loud))

\* `step` milliseconds pass on the clock of the client and the graph.
AdvanceBy(step) ==
    /\ \/ client.sinceSpeech <= HangoverMs
       \/ \E k \in DOMAIN graph.timers : ~TimerDue(graph.timers[k])
    /\ Becomes([Begin EXCEPT
           !.client.sinceSpeech = Min(@ + step, HangoverMs + 1),
           !.graph.timers = [k \in DOMAIN @ |->
                                Min(@[k] + step, GraceDelayMs)]])

\* Time passes.
AdvanceTime == AdvanceBy(TimeStepMs)

\* A grace timer fires.
GraceTimerFires(k) ==
    /\ k \in DOMAIN graph.timers
    /\ TimerDue(graph.timers[k])
    /\ MayDisconnect
    /\ Becomes(graceTimeout(
           [Begin EXCEPT !.graph.timers =
               SubSeq(@, 1, k - 1) \o SubSeq(@, k + 1, Len(@))]))

Next ==
    \/ \E i \in ConnIds : StartSession(i)
    \/ \E i \in ConnIds : MediaGranted(i)
    \/ \E i \in ConnIds : MediaDenied(i)
    \/ \E c \in ConnIds : OnOpen(c)
    \/ \E i \in ConnIds : ConnectResolved(i)
    \/ \E i \in ConnIds : ConnectRejected(i)
    \/ \E c \in ConnIds : OnClose(c)
    \/ \E c \in ConnIds : OnError(c)
    \/ \E c \in ConnIds, msg \in ToolCalls : OnMessage(c, msg)
    \/ ResumeAfterClose
    \/ ResumeAfterCtxClose
    \/ StopSession
    \/ NextTopic
    \/ \E p \in ConnIds, loud \in BOOLEAN : CaptureTick(p, loud)
    \/ AdvanceTime
    \/ \E k \in 1..MaxAssess : GraceTimerFires(k)

Spec == Init /\ [][Next]_vars

\* The orchestrator over the one session of a page: the remote agent's tool
\* calls and the grace timers.
NextGraph ==
    \/ StartSession(1)
    \/ \E i \in ConnIds : MediaGranted(i)
    \/ \E i \in ConnIds : MediaDenied(i)
    \/ \E c \in ConnIds : OnOpen(c)
    \/ \E i \in ConnIds : ConnectResolved(i)
    \/ \E i \in ConnIds : ConnectRejected(i)
    \/ \E c \in ConnIds : OnClose(c)
    \/ \E c \in ConnIds : OnError(c)
    \/ \E c \in ConnIds, msg \in GraphToolCalls : OnMessage(c, msg)
    \/ ResumeAfterClose
    \/ ResumeAfterCtxClose
    \/ StopSession
    \/ AdvanceTime
    \/ \E k \in 1..MaxAssess : GraceTimerFires(k)

SpecGraph == Init /\ [][NextGraph]_vars

\* The same session for every interview format.
SpecDuration == InitAnyDuration /\ [][NextGraph]_vars

\* The same session with the remote agent's text parts and the recognizer's
\* final segments, which fill the scratch buffers the log entries are
\* built from.
NextLog ==
    \/ NextGraph
    \/ \E c \in ConnIds, msg \in TextMessages : OnMessage(c, msg)
    \/ \E results \in FinalResults : OnSpeechResult(results)

SpecLog == Init /\ [][NextLog]_vars

\* The recognizer terminates, of its own accord or after stop(), and
\* reports it: recognition.onend runs.
RecognitionEnded ==
    /\ graph.recognizing \/ graph.recognitionEnding
    /\ LET s1 == [Begin EXCEPT !.graph.recognizing = FALSE,
                               !.graph.recognitionEnding = FALSE]
       IN  Becomes(onend(Emit(s1, "recognitionEnd")))

\* The caller mutes or unmutes the microphone.
ToggleMic(muted) ==
    /\ Becomes(toggleMic(Begin, muted))

\* Sessions whose recognizer terminates while they run and after they stop.
NextRecognition ==
    \/ StartSession(1)
    \/ StartSession(2)
    \/ \E i \in ConnIds : MediaGranted(i)
    \/ \E i \in ConnIds : MediaDenied(i)
    \/ \E c \in ConnIds : OnOpen(c)
    \/ \E i \in ConnIds : ConnectResolved(i)
    \/ \E i \in ConnIds : ConnectRejected(i)
    \/ \E c \in ConnIds : OnClose(c)
    \/ \E c \in ConnIds : OnError(c)
    \/ ResumeAfterClose
    \/ ResumeAfterCtxClose
    \/ StopSession
    \/ \E muted \in BOOLEAN : ToggleMic(muted)
    \/ RecognitionEnded

SpecRecognition == Init /\ [][NextRecognition]_vars

\* ResumeAfterClose, with a count of the disconnect() calls that asked a
\* session to close and have gone on to wait for audioContext.close()
ClosingResumeAfterClose ==
    /\ client.awaitClose > 0
    /\ LET s1 == disconnectAfterClose(
                     [Begin EXCEPT !.client.awaitClose = @ - 1])
       IN  Becomes([s1 EXCEPT !.obs.closing =
                        @ + s1.client.awaitCtxClose - client.awaitCtxClose])

\* ResumeAfterCtxClose; of the calls that wait for audioContext.close()
\* those that asked a session to close are counted as the first to finish
ClosingResumeAfterCtxClose ==
    /\ client.awaitCtxClose > 0
    /\ LET s1 == disconnectAfterCtxClose(
                     [Begin EXCEPT !.client.awaitCtxClose = @ - 1])
       IN  Becomes([s1 EXCEPT !.obs.closing = Max(0, @ - 1)])

\* Two sessions, the second started over the first, with capture ticks and
\* audio parts arriving while disconnect() calls are suspended.
NextClosing ==
    \/ StartSession(1)
    \/ StartSession(2)
    \/ \E i \in ConnIds : MediaGranted(i)
    \/ \E i \in ConnIds : MediaDenied(i)
    \/ \E c \in ConnIds : OnOpen(c)
    \/ \E i \in ConnIds : ConnectResolved(i)
    \/ \E i \in ConnIds : ConnectRejected(i)
    \/ \E c \in ConnIds, msg \in OneSecondAudio : OnMessage(c, msg)
    \/ \E p \in ConnIds, loud \in BOOLEAN : CaptureTick(p, loud)
    \/ ClosingResumeAfterClose
    \/ ClosingResumeAfterCtxClose
    \/ StopSession

SpecClosing == Init /\ [][NextClosing]_vars

\* MediaGranted, with a note of the invocations whose connect() found the
\* client holding the session handle of an earlier connection, and of those
\* whose connect() ran while a grace timer was pending
ReplacingConnect(i) ==
    /\ graph.startPc[i] = "media"
    /\ MayDisconnect
    /\ LET s1 == recognitionStart(initAudio(Begin))
           s2 == connect(s1, i)
       IN  Becomes([s2 EXCEPT !.graph.startPc[i] = "connect",
                              !.obs.replaced =
                                  IF client.session # Null THEN @ \cup {i}
                                  ELSE @,
                              !.obs.armedBefore =
                                  IF graph.timers # << >> THEN @ \cup {i}
                                  ELSE @])

\* Two sessions, the second started while the first is set up, connected
\* or being stopped.
NextReplace ==
    \/ StartSession(1)
    \/ StartSession(2)
    \/ \E i \in ConnIds : ReplacingConnect(i)
    \/ \E i \in ConnIds : MediaDenied(i)
    \/ \E c \in ConnIds : OnOpen(c)
    \/ \E i \in ConnIds : ConnectResolved(i)
    \/ \E i \in ConnIds : ConnectRejected(i)
    \/ \E c \in ConnIds : OnClose(c)
    \/ \E c \in ConnIds : OnError(c)
    \/ ResumeAfterClose
    \/ ResumeAfterCtxClose
    \/ StopSession
    \/ \E p \in ConnIds, loud \in BOOLEAN : CaptureTick(p, loud)

SpecReplace == Init /\ [][NextReplace]_vars

\* Two sessions with the remote agent's well-formed save_assessment calls
\* and the grace timers: the caller stops or starts a session while a timer
\* is pending.
NextGrace ==
    \/ StartSession(1)
    \/ StartSession(2)
    \/ \E i \in ConnIds : ReplacingConnect(i)
    \/ \E c \in ConnIds : OnOpen(c)
    \/ \E i \in ConnIds : ConnectResolved(i)
    \/ \E c \in ConnIds :
          OnMessage(c, ToolCall("save_assessment", FullArgs))
    \/ ResumeAfterClose
    \/ ResumeAfterCtxClose
    \/ StopSession
    \/ AdvanceTime
    \/ \E k \in 1..MaxAssess : GraceTimerFires(k)

SpecGrace == Init /\ [][NextGrace]_vars

\* callbacks.onmessage in a conversation of at most MaxTurns assessments;
\* what a handled save_assessment was given is noted
TurnMessage(c, msg) ==
    /\ net.conn[c] = "open"
    /\ Len(graph.analyses) < MaxTurns
    /\ msg.kind = "text" => Len(graph.aiTextBuffer) < MaxBuf
    /\ LET s1 == safeHandleMessage(Begin, msg)
       IN  Becomes(IF Len(s1.graph.analyses) > Len(graph.analyses)
                   THEN Saved(s1, St, msg.args)
                   ELSE s1)

\* recognition.onresult in that conversation; what the final results of
\* the event say is noted
TurnSpeech(results) ==
    /\ graph.recognizing
    /\ Len(graph.userTranscriptBuffer) < MaxBuf
    /\ LET s1 == onresult(Begin, results)
       IN  Becomes([s1 EXCEPT !.obs.said = @ \o Spoken(results)])

\* One conversation over an open channel: the agent's text parts, the
\* recognizer's events and save_assessment calls with and without the
\* optional texts.
NextTurn ==
    \/ StartSession(1)
    \/ \E i \in ConnIds : MediaGranted(i)
    \/ \E i \in ConnIds : MediaDenied(i)
    \/ \E c \in ConnIds : OnOpen(c)
    \/ \E i \in ConnIds : ConnectResolved(i)
    \/ \E i \in ConnIds : ConnectRejected(i)
    \/ \E c \in ConnIds, msg \in TurnToolCalls \cup TextMessages :
          TurnMessage(c, msg)
    \/ \E results \in SpeechEvents : TurnSpeech(results)

SpecTurn == Init /\ [][NextTurn]_vars

\* the audio contexts that have been created and not closed
RunningContexts == { c \in ConnIds : net.conn[c] # "none" /\ c \notin net.ctxClosed }

\* The k-th buffer source has played to its end.
SourceEnded(k) ==
    /\ k \in DOMAIN net.sources
    /\ net.sources[k].status = "scheduled"
    /\ net.sources[k].ctx \in RunningContexts
    /\ net.ctxTime[net.sources[k].ctx]
          >= net.sources[k].start + net.sources[k].duration
    /\ Becomes(onended(Begin, k))

\* The playback clocks of the running audio contexts advance.
AdvancePlayback ==
    /\ \E c \in RunningContexts : net.ctxTime[c] + TimeStepMs <= MaxClockMs
    /\ Becomes([Begin EXCEPT !.net.ctxTime =
           [c \in ConnIds |->
               IF c \in RunningContexts /\ @[c] + TimeStepMs <= MaxClockMs
               THEN @[c] + TimeStepMs
               ELSE @[c]]])

\* The one session of a page with the remote agent's audio: playback.
NextPlay ==
    \/ StartSession(1)
    \/ \E i \in ConnIds : MediaGranted(i)
    \/ \E i \in ConnIds : MediaDenied(i)
    \/ \E c \in ConnIds : OnOpen(c)
    \/ \E i \in ConnIds : ConnectResolved(i)
    \/ \E i \in ConnIds : ConnectRejected(i)
    \/ \E c \in ConnIds : OnClose(c)
    \/ \E c \in ConnIds : OnError(c)
    \/ \E c \in ConnIds, msg \in AudioMessages : OnMessage(c, msg)
    \/ \E k \in 1..MaxFrags : SourceEnded(k)
    \/ AdvancePlayback
    \/ ResumeAfterClose
    \/ ResumeAfterCtxClose
    \/ StopSession

SpecPlay == Init /\ [][NextPlay]_vars

\* Two sessions of a page without the remote agent's messages: the
\* caller's calls, the channel's callbacks, capture.
NextCapture ==
    \/ StartSession(1)
    \/ StartSession(2)
    \/ \E i \in ConnIds : MediaGranted(i)
    \/ \E i \in ConnIds : MediaDenied(i)
    \/ \E c \in ConnIds : OnOpen(c)
    \/ \E i \in ConnIds : ConnectResolved(i)
    \/ \E i \in ConnIds : ConnectRejected(i)
    \/ \E c \in ConnIds : OnClose(c)
    \/ \E c \in ConnIds : OnError(c)
    \/ ResumeAfterClose
    \/ ResumeAfterCtxClose
    \/ StopSession
    \/ NextTopic
    \/ \E p \in ConnIds, loud \in BOOLEAN : CaptureTick(p, loud)
    \/ AdvanceTime

SpecCapture == Init /\ [][NextCapture]_vars

\* The face-mesh script of the page finishes loading.
ScriptLoaded ==
    /\ ~net.faceMeshLoaded
    /\ Becomes([Begin EXCEPT !.net.faceMeshLoaded = TRUE])

\* An animation frame runs the callback processAudioLoop left pending.
AudioFrame(rms) ==
    /\ analysis.audioFrames > 0
    /\ Len(analysis.speechHistory) < MaxWindow
    /\ Becomes(processAudioLoop(
                   [Begin EXCEPT !.analysis.audioFrames = @ - 1], rms))

\* The checkVideo interval that handleStartSession sets after
\* `await graph.startSession()` finds the video element ready: it clears
\* itself and calls initVideo.
PageCheckVideo(i) ==
    /\ graph.startPc[i] = "done"
    /\ i \notin analysis.videoChecked
    /\ Becomes(initVideo(
                   [Begin EXCEPT !.analysis.videoChecked = @ \cup {i}],
                   net.faceMeshLoaded, 4))

\* A retry timer of initVideo fires.
InitVideoRetry(readyState) ==
    /\ analysis.retries > 0
    /\ Becomes(initVideo([Begin EXCEPT !.analysis.retries = @ - 1],
                         net.faceMeshLoaded, readyState))

\* An animation frame runs processFrame.
VideoFrame(readyState) ==
    /\ analysis.videoFrames > 0
    /\ Becomes(processFrame([Begin EXCEPT !.analysis.videoFrames = @ - 1],
                            readyState))

\* A faceMesh.send in flight delivers its results to onFaceResults and
\* resolves; processFrame goes on to requestAnimationFrame(processFrame).
FaceResults(results) ==
    /\ analysis.sends > 0
    /\ results.face => Len(analysis.gazeHistory) < MaxGaze
    /\ LET s1 == onFaceResults([Begin EXCEPT !.analysis.sends = @ - 1],
                               results)
       IN  Becomes([s1 EXCEPT !.analysis.videoFrames = @ + 1])

\* A faceMesh.send in flight rejects: the frame is dropped.
SendFailed ==
    /\ analysis.sends > 0
    /\ Becomes([Begin EXCEPT !.analysis.sends = @ - 1,
                             !.analysis.videoFrames = @ + 1])

\* the states the video element reports: metadata only, current frame,
\* enough data
ReadyStates == {1, 2, 4}

\* AnalysisStepMs milliseconds pass on the clock the engine reads with
\* Date.now(); what lies beyond the window and the timeout is not told
\* apart.
AnalysisTime ==
    /\ analysis.isRunning
    /\ Becomes([Begin EXCEPT
           !.analysis.speechHistory =
               [k \in DOMAIN @ |->
                   [@[k] EXCEPT !.age = Min(@ + AnalysisStepMs,
                                            WINDOW_MS + 1)]],
           !.analysis.sinceSpeech = Min(@ + AnalysisStepMs, SILENCE_TIMEOUT)])

\* One session whose audio ticks are spread over time.
NextMetrics ==
    \/ StartSession(1)
    \/ \E i \in ConnIds : MediaGranted(i)
    \/ \E c \in ConnIds : OnOpen(c)
    \/ \E i \in ConnIds : ConnectResolved(i)
    \/ ResumeAfterClose
    \/ ResumeAfterCtxClose
    \/ StopSession
    \/ \E rms \in RmsInputs : AudioFrame(rms)
    \/ AnalysisTime

SpecMetrics == Init /\ [][NextMetrics]_vars

\* how often the classification changes along the gaze history h
GazeChanges(h) ==
    Cardinality({ k \in 1..(Len(h) - 1) : h[k] # h[k + 1] })

\* FaceResults for a candidate who looks at the camera and away from it in
\* long stretches, so that the gaze history fills up and rolls over
GazeResults(results) ==
    /\ analysis.sends > 0
    /\ results.face =>
          LET pushed == Append(analysis.gazeHistory, results.isLooking)
              hist == IF Len(pushed) > GazeWindow THEN Tail(pushed)
                      ELSE pushed
          IN  GazeChanges(hist) <= MaxGazeChanges
    /\ LET s1 == onFaceResults([Begin EXCEPT !.analysis.sends = @ - 1],
                               results)
       IN  Becomes([s1 EXCEPT !.analysis.videoFrames = @ + 1])

\* One session whose video frames keep coming.
NextGaze ==
    \/ StartSession(1)
    \/ \E i \in ConnIds : MediaGranted(i)
    \/ \E c \in ConnIds : OnOpen(c)
    \/ \E i \in ConnIds : ConnectResolved(i)
    \/ ScriptLoaded
    \/ \E i \in ConnIds : PageCheckVideo(i)
    \/ \E r \in ReadyStates : VideoFrame(r)
    \/ \E f \in Faces : GazeResults(f)

SpecGaze == Init /\ [][NextGaze]_vars

\* One session and the analysis engine it starts and stops.
NextAnalysis ==
    \/ StartSession(1)
    \/ \E i \in ConnIds : MediaGranted(i)
    \/ \E i \in ConnIds : MediaDenied(i)
    \/ \E c \in ConnIds : OnOpen(c)
    \/ \E i \in ConnIds : ConnectResolved(i)
    \/ \E i \in ConnIds : ConnectRejected(i)
    \/ ResumeAfterClose
    \/ ResumeAfterCtxClose
    \/ StopSession
    \/ ScriptLoaded
    \/ \E rms \in RmsInputs : AudioFrame(rms)
    \/ \E i \in ConnIds : PageCheckVideo(i)
    \/ \E r \in ReadyStates : InitVideoRetry(r)
    \/ \E r \in ReadyStates : VideoFrame(r)
    \/ \E f \in Faces : FaceResults(f)
    \/ SendFailed

SpecAnalysis == Init /\ [][NextAnalysis]_vars

\* One session with capture ticks on a clock fine enough to tell the
\* hangover interval from the instant after it.
NextVad ==
    \/ StartSession(1)
    \/ \E i \in ConnIds : MediaGranted(i)
    \/ \E i \in ConnIds : MediaDenied(i)
    \/ \E c \in ConnIds : OnOpen(c)
    \/ \E i \in ConnIds : ConnectResolved(i)
    \/ \E i \in ConnIds : ConnectRejected(i)
    \/ \E c \in ConnIds : OnClose(c)
    \/ \E c \in ConnIds : OnError(c)
    \/ ResumeAfterClose
    \/ ResumeAfterCtxClose
    \/ StopSession
    \/ \E p \in ConnIds, loud \in BOOLEAN : CaptureTick(p, loud)
    \/ AdvanceBy(VadStepMs)

SpecVad == Init /\ [][NextVad]_vars

----------------------------------------------------------------------------
(* The session of a page over the acknowledging client                     *)

\* getUserMedia resolves: initAudio, recognition.start(), then connect()
\* up to its await.
MediaGrantedP4(i) ==
    /\ graph.startPc[i] = "media"
    /\ LET s1 == recognitionStart(initAudio(Begin))
           s2 == connectP4(s1, i)
       IN  Becomes([s2 EXCEPT !.graph.startPc[i] = "connect"])

\* `this.session = await this.connectPromise` resumes, then
\* startSession() goes on to startAudioInput(stream).
ConnectResolvedP4(i) ==
    /\ graph.startPc[i] = "connect"
    /\ net.conn[i] \in {"open", "closed"}
    /\ LET s1 == [Begin EXCEPT !.client.session = i]
           s2 == startAudioInput(s1, i)
       IN  Becomes([s2 EXCEPT !.graph.startPc[i] = "done"])

\* the connect promise rejects: the catch block, then startSession() goes
\* on to startAudioInput(stream).
ConnectRejectedP4(i) ==
    /\ graph.startPc[i] = "connect"
    /\ net.conn[i] = "pending"
    /\ LET s1 == [Begin EXCEPT !.net.conn[i] = "failed",
                               !.client.isSessionOpen = FALSE]
           s2 == onError(s1)
           s3 == startAudioInput(s2, i)
       IN  Becomes([s3 EXCEPT !.graph.startPc[i] = "done"])

\* callbacks.onmessage of connection c with a function call; the remote
\* agent numbers its calls.  The continuation of the previous call's
\* handler is a microtask and has run before the next message event.
OnMessageP4(c, msg) ==
    /\ net.conn[c] = "open"
    /\ Len(graph.analyses) < MaxAssess
    /\ obs.called < MaxCalls
    /\ client.awaitTool = << >>
    /\ LET s1 == [Begin EXCEPT !.obs.called = @ + 1]
       IN  Becomes(handleServerMessage(s1, [msg EXCEPT !.id = obs.called + 1]))

\* `await this.events.onToolCall(...)` resumes.
ToolCallReturned ==
    /\ client.awaitTool # << >>
    /\ LET s1 == [Begin EXCEPT !.client.awaitTool = Tail(@)]
       IN  Becomes(sendToolResponse(s1, Head(client.awaitTool)))

\* The caller calls stopSession().
StopSessionP4 ==
    /\ Becomes(stopSessionP4(Begin))

\* A grace timer fires.
GraceTimerFiresP4(k) ==
    /\ k \in DOMAIN graph.timers
    /\ TimerDue(graph.timers[k])
    /\ Becomes(graceTimeoutP4(
           [Begin EXCEPT !.graph.timers =
               SubSeq(@, 1, k - 1) \o SubSeq(@, k + 1, Len(@))]))

NextAck ==
    \/ StartSession(1)
    \/ \E i \in ConnIds : MediaGrantedP4(i)
    \/ \E i \in ConnIds : MediaDenied(i)
    \/ \E c \in ConnIds : OnOpen(c)
    \/ \E i \in ConnIds : ConnectResolvedP4(i)
    \/ \E i \in ConnIds : ConnectRejectedP4(i)
    \/ \E c \in ConnIds : OnClose(c)
    \/ \E c \in ConnIds : OnError(c)
    \/ \E c \in ConnIds, msg \in ToolCalls : OnMessageP4(c, msg)
    \/ ToolCallReturned
    \/ StopSessionP4
    \/ AdvanceTime
    \/ \E k \in 1..MaxAssess : GraceTimerFiresP4(k)

SpecAck == Init /\ [][NextAck]_vars

----------------------------------------------------------------------------
(* Properties                                                              *)

\* the effects that are calls of session.sendRealtimeInput
TxKinds == {"speech", "silence", "nextTopic", "wrapUp"}

Transmitted == { k \in DOMAIN obs.ev : obs.ev[k].kind \in TxKinds }

\* C1: a frame or control message is handed to the transmit call only while
\* the published connection state is CONNECTED.
C1_TransmitOnlyWhenConnected ==
    \A k \in Transmitted : obs.ev[k].state = "CONNECTED"

\* C2: once disconnect() has been called and until the next
\* connect()/startSession(), nothing is passed to the transmit call.
C2_NoTransmitAfterDisconnect ==
    \A k \in Transmitted : ~obs.ev[k].quiet

\* connections that are open and on which no close has been requested
LiveConns == { c \in ConnIds : net.conn[c] = "open" /\ c \notin net.closeReq }

\* C3: at most one connection is open without a close request, and the
\* client holds (or is about to be handed) the handle of each such connection.
C3_OneOpenConnection ==
    /\ Cardinality(LiveConns) <= 1
    /\ \A c \in LiveConns : client.session = c \/ graph.startPc[c] = "connect"

\* C4: the connection state changes to CONNECTED only from CONNECTING, and
\* only in the open event of a connection.
C4_ConnectedOnlyFromConnecting ==
    [][(graph.connectionState # "CONNECTED" /\ graph'.connectionState = "CONNECTED")
          => /\ graph.connectionState = "CONNECTING"
             /\ \E c \in ConnIds : net.conn[c] = "pending" /\ net'.conn[c] = "open"]_vars

\* C5: after stopSession() and until the caller's next startSession() the
\* connection state is DISCONNECTED.
C5_StoppedStaysDisconnected ==
    obs.stopped => graph.connectionState = "DISCONNECTED"

\* C6: the completion callback runs at most once, and when it runs the
\* caller receives totalQuestions assessments and twice as many transcript
\* entries.
C6_CompletionOnceWithLogs ==
    /\ obs.onEndCalls <= 1
    /\ obs.onEndCalls = 1 =>
         /\ Len(obs.received) = 1
         /\ Len(obs.received[1].analyses) = graph.totalQuestions
         /\ Len(obs.received[1].transcript) = 2 * graph.totalQuestions

\* the steps that run the graph's handler on a save_assessment call
HandledAssessment ==
    \E k \in DOMAIN obs'.ev :
        /\ obs'.ev[k].kind = "toolCall"
        /\ obs'.ev[k].call.name = "save_assessment"

WrapUpCalled == \E k \in DOMAIN obs'.ev : obs'.ev[k].kind = "wrapUpCall"

\* C7: when a handled save_assessment takes the question counter to
\* totalQuestions, the wrap-up control message is issued in that step, ahead
\* of anything it transmits afterwards, and a grace timer starts at age 0
\* with the channel left alone; the wrap-up is issued in no other step, so
\* never while the counter is below totalQuestions; the completion callback
\* runs only in the step of a timer that has aged the whole grace delay,
\* and when it runs disconnect() has been called, the state is DISCONNECTED
\* and a close has been requested on the session the client still holds.
C7_TerminationOrder ==
    [][ /\ ( /\ graph'.currentQuestionIndex # graph.currentQuestionIndex
             /\ graph'.currentQuestionIndex >= graph.totalQuestions )
           => /\ WrapUpCalled
              /\ \A k \in DOMAIN obs'.ev :
                    obs'.ev[k].kind = "wrapUp"
                      => \E j \in 1..(k - 1) : obs'.ev[j].kind = "wrapUpCall"
              /\ Len(graph'.timers) = Len(graph.timers) + 1
              /\ graph'.timers[Len(graph'.timers)] = 0
              /\ obs'.onEndCalls = obs.onEndCalls
              /\ client'.isSessionOpen
              /\ net'.closeReq = net.closeReq
        /\ WrapUpCalled
           => /\ graph'.currentQuestionIndex = graph.currentQuestionIndex + 1
              /\ graph'.currentQuestionIndex >= graph.totalQuestions
        /\ Len(graph'.timers) > Len(graph.timers) => WrapUpCalled
        /\ obs'.onEndCalls # obs.onEndCalls
           => /\ \E k \in DOMAIN graph.timers :
                    /\ graph.timers[k] >= GraceDelayMs
                    /\ graph'.timers = SubSeq(graph.timers, 1, k - 1)
                          \o SubSeq(graph.timers, k + 1, Len(graph.timers))
              /\ \E k \in DOMAIN obs'.ev : obs'.ev[k].kind = "onEnd"
              /\ \A k \in DOMAIN obs'.ev :
                    obs'.ev[k].kind = "onEnd"
                      => obs'.ev[k].state = "DISCONNECTED" /\ obs'.ev[k].quiet
              /\ ~client'.isSessionOpen
              /\ client'.session # Null => client'.session \in net'.closeReq
      ]_vars

\* a wrap-up was transmitted, its timer aged and fired, the callback ran
C7_Witness ==
    /\ obs.onEndCalls = 1
    /\ graph.currentQuestionIndex = graph.totalQuestions
    /\ graph.timers = << >>

\* C8: when the client has passed a function call to the graph's handler
\* and the handler has finished, exactly one acknowledgment naming that
\* call has been sent back.
C8_EveryToolCallAcknowledged ==
    \A k \in DOMAIN obs.ev :
        obs.ev[k].kind = "toolCall"
          => Cardinality({ j \in DOMAIN obs.ev :
                             /\ obs.ev[j].kind = "ack"
                             /\ obs.ev[j].call = obs.ev[k].call }) = 1

\* C9: every acknowledged save_assessment call has its assessment in the
\* log, with the two transcript entries of that assessment, in the state
\* in which the acknowledgment is sent and ever after.
C9_AckAfterAppend ==
    \A a \in DOMAIN obs.acked :
        obs.acked[a].name = "save_assessment"
          => \E i \in DOMAIN graph.analyses :
                /\ obs.savedBy[i] = obs.acked[a].id
                /\ Len(graph.transcript) >= 2 * i
                /\ graph.transcript[2 * i - 1].text = graph.analyses[i].questionText
                /\ graph.transcript[2 * i].text = graph.analyses[i].userAnswer

\* two save_assessment calls have been acknowledged
C9_Witness ==
    Cardinality({ a \in DOMAIN obs.acked :
                    obs.acked[a].name = "save_assessment" }) >= 2

DisconnectCompleted ==
    \E k \in DOMAIN obs.ev : obs.ev[k].kind = "disconnected"

\* C11: when a disconnect() has completed the playback queue is empty and
\* no buffer source is left scheduled, and no fragment is scheduled for
\* playback after a disconnect() with no connect()/startSession() since.
C11_FlushOnDisconnect ==
    /\ DisconnectCompleted
         => /\ client.audioQueue = << >>
            /\ \A k \in DOMAIN net.sources :
                  net.sources[k].status # "scheduled"
    /\ \A k \in DOMAIN obs.ev :
          obs.ev[k].kind = "onAudioData" => ~obs.ev[k].quiet

\* the end time of the buffer scheduled before the k-th, 0 for the first
PreviousEnd(k) ==
    IF k = 1 THEN 0
    ELSE net.sources[k - 1].start + net.sources[k - 1].duration

\* C12: every scheduled buffer starts at the later of the playback clock at
\* scheduling time and the end of the buffer scheduled before it, so the
\* buffers are in arrival order and none starts before the previous ends.
C12_StartIsMaxOfClockAndPreviousEnd ==
    \A k \in DOMAIN net.sources :
        /\ net.sources[k].start =
              Max(net.sources[k].at, PreviousEnd(k))
        /\ net.sources[k].start >= PreviousEnd(k)
        /\ k > 1 => net.sources[k].start >= net.sources[k - 1].start

\* three buffers: one queued behind a buffer still playing, one scheduled
\* at the clock after the queue had run dry
C12_Witness ==
    /\ Len(net.sources) = 3
    /\ \E k \in 2..3 : net.sources[k].start > net.sources[k].at
    /\ \E k \in 2..3 : /\ net.sources[k].start = net.sources[k].at
                        /\ net.sources[k].at > PreviousEnd(k)


\* the handler that has just run was the channel's onerror callback
TransportFault == \E k \in DOMAIN obs.ev : obs.ev[k].kind = "onerror"

\* a step in which some connection opens
SomeConnectionOpens ==
    \E c \in ConnIds : net.conn[c] = "pending" /\ net'.conn[c] = "open"

\* C13: the onerror callback leaves the state ERROR and the open flag
\* false; the flag becomes true again only in a step in which a connection
\* opens; and whatever is transmitted is transmitted with the flag true.
\* So nothing is transmitted between a transport error and the next open.
C13_NoSendAfterTransportError ==
    /\ [](TransportFault
            => graph.connectionState = "ERROR" /\ ~client.isSessionOpen)
    /\ [](Transmitted # {} => client.isSessionOpen)
    /\ [][ (~client.isSessionOpen /\ client'.isSessionOpen)
             => SomeConnectionOpens ]_vars

\* a transport error on a session that was transmitting its capture
C13_Witness ==
    /\ TransportFault
    /\ client.session # Null
    /\ client.inputProcessor # Null
    /\ ReadyStateOpen(St, client.ws)

\* C14: when the connect of invocation i fails the state becomes ERROR;
\* a failed connection never opens; the state becomes CONNECTED only in a
\* step in which a pending connection opens; and a connection is attempted
\* only by the startSession() invocation it belongs to, never by a retry.
C14_ConnectFailureIsError ==
    [][ \A i \in ConnIds :
          /\ (net.conn[i] = "pending" /\ net'.conn[i] = "failed")
                => graph'.connectionState = "ERROR"
          /\ net.conn[i] = "failed" => net'.conn[i] = "failed"
          /\ (net.conn[i] = "none" /\ net'.conn[i] # "none")
                => /\ graph.startPc[i] = "media"
                   /\ graph'.startPc[i] = "connect"
                   /\ net'.conn[i] = "pending"
          /\ (graph.connectionState # "CONNECTED"
                 /\ graph'.connectionState = "CONNECTED")
                => SomeConnectionOpens
      ]_vars

\* the one connect attempt failed and nothing else was attempted
C14_Witness ==
    /\ net.conn[1] = "failed"
    /\ net.conn[2] = "none"
    /\ graph.connectionState = "ERROR"
    /\ graph.startPc[1] = "done"

\* C15: when the onerror callback has run, capture is stopped and no
\* playback buffer is left scheduled or queued.
C15_FaultTearsDown ==
    TransportFault
      => /\ client.inputProcessor = Null
         /\ client.audioQueue = << >>
         /\ \A k \in DOMAIN net.sources : net.sources[k].status # "scheduled"

\* the startSession() invocations that have begun
Started == { i \in ConnIds : graph.startPc[i] # "idle" }

\* C16: a startSession() whose device acquisition failed has rejected, has
\* attempted no connection, created no audio context and installed no
\* capture processor; while every invocation so far has failed that way the
\* state is not CONNECTED.
C16_DeviceFailureStopsStart ==
    /\ [](\A i \in ConnIds :
            graph.startPc[i] = "failed"
              => /\ net.conn[i] = "none"
                 /\ i \notin net.procs
                 /\ client.inputProcessor # i
                 /\ client.audioContext # i)
    /\ []((Started # {} /\ \A i \in Started : graph.startPc[i] = "failed")
            => graph.connectionState # "CONNECTED")
    /\ [][ \A i \in ConnIds :
            (graph.startPc[i] = "media" /\ graph'.startPc[i] = "failed")
              => \E k \in DOMAIN obs'.ev :
                    obs'.ev[k].kind = "startSessionRejected" ]_vars

\* both invocations failed at device acquisition
C16_Witness ==
    /\ graph.startPc[1] = "failed"
    /\ graph.startPc[2] = "failed"

\* C17: when the first startSession() of a page fails at device
\* acquisition, the connection state is the DISCONNECTED it was before the
\* call, and no failed startSession() leaves the state at CONNECTING.
C17_FailedStartLeavesStateAlone ==
    [][ /\ (graph.startPc[1] = "media" /\ graph'.startPc[1] = "failed"
               /\ graph.startPc[2] = "idle")
             => graph'.connectionState = "DISCONNECTED"
        /\ \A i \in ConnIds :
             (graph.startPc[i] = "media" /\ graph'.startPc[i] = "failed"
                /\ \A j \in ConnIds \ {i} : graph.startPc[j] # "media")
               => graph'.connectionState # "CONNECTING"
      ]_vars


\* the parts of the state disconnect() works on
ClientEnd(s) == [client |-> s.client, net |-> s.net]

\* C18: from every reachable state, disconnect() run to its end leaves the
\* open flag false, no session handle, an empty playback queue, no capture
\* processor and no audio context, and a second disconnect() after it,
\* awaited or called while the first is still suspended, ends in the same
\* state.
C18_DisconnectIdempotent ==
    LET once == disconnectToEnd(St)
        twice == disconnectToEnd(once)
        overlapped == Settle(disconnect(disconnect(St)), St)
    IN  /\ ~once.client.isSessionOpen
        /\ once.client.session = Null
        /\ once.client.ws = Null
        /\ once.client.audioQueue = << >>
        /\ once.client.inputProcessor = Null
        /\ once.client.audioContext = Null
        /\ ClientEnd(twice) = ClientEnd(once)
        /\ ClientEnd(overlapped) = ClientEnd(once)

\* a connected session that captures and has a buffer queued: everything
\* disconnect() has to undo
C18_Witness ==
    /\ client.isSessionOpen
    /\ client.session # Null
    /\ client.inputProcessor # Null
    /\ client.audioContext # Null
    /\ client.audioQueue # << >>

LoudTick == \E k \in DOMAIN obs'.ev : obs'.ev[k].kind = "loudTick"
QuietTick == \E k \in DOMAIN obs'.ev : obs'.ev[k].kind = "quietTick"

\* C19: a processed tick above the threshold is speaking; a processed tick
\* below it is speaking exactly when the last tick above the threshold was
\* at most the hangover interval earlier; the stream turns silent only at
\* a tick below the threshold more than the interval after that tick, and
\* turns speaking only at a tick above the threshold.
C19_VoiceActivity ==
    [][ /\ LoudTick => client'.isSpeaking
        /\ QuietTick
             => (client'.isSpeaking <=> client.sinceSpeech <= HangoverMs)
        /\ (client.isSpeaking /\ ~client'.isSpeaking)
             => QuietTick /\ client.sinceSpeech > HangoverMs
        /\ (~client.isSpeaking /\ client'.isSpeaking) => LoudTick
      ]_vars

\* a tick below the threshold exactly the hangover interval after the
\* last one above it, still speaking
C19_Witness ==
    /\ \E k \in DOMAIN obs.ev : obs.ev[k].kind = "quietTick"
    /\ client.sinceSpeech = HangoverMs
    /\ client.isSpeaking

\* C20: a processed tick in the silent state transmits exactly one frame,
\* all zeros, with as many samples as the captured frame has after
\* resampling.
C20_SilentFrameSameDuration ==
    (\E k \in DOMAIN obs.ev : obs.ev[k].kind = "quietTick")
       /\ ~client.isSpeaking
      => /\ Cardinality(Transmitted) = 1
         /\ \A k \in Transmitted :
               /\ obs.ev[k].kind = "silence"
               /\ obs.ev[k].frame.zero
               /\ obs.ev[k].frame.samples =
                     downsample(BufferSize, OUTPUT_SAMPLE_RATE,
                                INPUT_SAMPLE_RATE)


\* what the analysis engine measures and keeps
Measured ==
    [currentMetrics |-> analysis.currentMetrics,
     rmsValues |-> analysis.rmsValues,
     speechHistory |-> analysis.speechHistory,
     gazeHistory |-> analysis.gazeHistory]

\* the ages in the speech window do not count as a change of the window
Timeless(m) ==
    [m EXCEPT !.speechHistory = [k \in DOMAIN @ |-> @[k].isSpeech]]

\* C21: from stop() until the next session start initialises the engine,
\* no step changes the metrics snapshot, the energy buffer, the speech
\* window or the gaze history.
C21_NothingRunsAfterStop ==
    [][ (analysis.afterStop /\ analysis'.afterStop)
          => Timeless(Measured)' = Timeless(Measured) ]_vars

\* C29: every field of the metrics snapshot is within its range.
C29_MetricsInRange ==
    LET m == analysis.currentMetrics
    IN  /\ m.speechRate >= 0
        /\ m.pauseRatio \in 0..1000
        /\ m.volumeStability \in 0..100
        /\ m.eyeContact \in 0..100
        /\ m.confidence \in 0..100
        /\ m.audioLevel \in 0..100


\* the assessments for which the model has the note of what they were given
Noted == DOMAIN graph.analyses \cap DOMAIN obs.saved

\* C22: a handled save_assessment leaves both scratch buffers empty, and
\* the text the buffers held for an earlier question is not the stored
\* question text or answer of a later assessment, unless that assessment's
\* own buffers or tool arguments carry the same text.
C22_NoTextCarriedOver ==
    /\ [][ Len(graph'.analyses) > Len(graph.analyses)
             => /\ graph'.aiTextBuffer = EmptyStr
                /\ graph'.userTranscriptBuffer = EmptyStr ]_vars
    /\ [](\A j \in Noted, k \in Noted :
            j < k =>
              /\ ( /\ obs.saved[j].aiTextBuffer # EmptyStr
                   /\ graph.analyses[k].questionText
                          = obs.saved[j].aiTextBuffer )
                   => \/ obs.saved[k].aiTextBuffer
                             = obs.saved[j].aiTextBuffer
                      \/ obs.saved[k].args.full_question_text
                             = obs.saved[j].aiTextBuffer
              /\ ( /\ Trim(obs.saved[j].userTranscriptBuffer) # EmptyStr
                   /\ graph.analyses[k].userAnswer
                          = Trim(obs.saved[j].userTranscriptBuffer) )
                   => \/ Trim(obs.saved[k].userTranscriptBuffer)
                             = Trim(obs.saved[j].userTranscriptBuffer)
                      \/ obs.saved[k].args.user_answer_summary
                             = Trim(obs.saved[j].userTranscriptBuffer))

\* C23: the stored question text is the tool's full_question_text when
\* there is one, else the agent text accumulated since the previous
\* save_assessment when there is some, else the placeholder.
C23_QuestionTextPriority ==
    \A k \in Noted :
        graph.analyses[k].questionText =
            OrElse(obs.saved[k].args.full_question_text,
                   OrElse(obs.saved[k].aiTextBuffer,
                          <<"Interview Question">>))

\* C24: the stored answer is the trimmed candidate buffer when that is not
\* empty, else the tool's answer summary when there is one, else the
\* no-response marker; and the buffer holds exactly what the final results
\* since the last handled save_assessment said.
C24_AnswerPriority ==
    /\ graph.userTranscriptBuffer = obs.said
    /\ \A k \in Noted :
         graph.analyses[k].userAnswer =
             IF Trim(obs.saved[k].userTranscriptBuffer) # EmptyStr
             THEN Trim(obs.saved[k].userTranscriptBuffer)
             ELSE OrElse(obs.saved[k].args.user_answer_summary,
                         <<"(No audio response detected)">>)

\* an answer taken from the buffer after an interim result was shown, one
\* that fell back to the summary because the buffer held blanks only, and
\* one that fell back to the marker
C24_Witness ==
    /\ graph.realtimeInputText # EmptyStr
    /\ \E k \in Noted : graph.analyses[k].userAnswer = <<"a">>
    /\ \E k \in Noted :
         /\ obs.saved[k].userTranscriptBuffer # EmptyStr
         /\ graph.analyses[k].userAnswer = <<"summary">>
    /\ \E k \in Noted :
         graph.analyses[k].userAnswer = <<"(No audio response detected)">>


\* C25: every save_assessment call that reaches the handler appends one
\* assessment and advances the question counter, whatever its payload.
C25_MalformedCallStillSaved ==
    [][ HandledAssessment
          => /\ Len(graph'.analyses) = Len(graph.analyses) + 1
             /\ graph'.currentQuestionIndex = graph.currentQuestionIndex + 1
      ]_vars

\* C26: every assessment in the log has both scores within 1..10.
C26_ScoresInRange ==
    \A k \in DOMAIN graph.analyses :
        /\ graph.analyses[k].contentScore \in 1..10
        /\ graph.analyses[k].deliveryScore \in 1..10


\* the steps in which the recognizer reports its end
RecognizerEnds ==
    \E k \in DOMAIN obs'.ev : obs'.ev[k].kind = "recognitionEnd"

\* C27: when the recognizer ends while the connection state is CONNECTED
\* it is started again in that step, and when it ends in any other state,
\* as after stopSession(), it stays stopped.
C27_RecognizerResumesWhileConnected ==
    [][ RecognizerEnds
          => /\ graph'.connectionState = graph.connectionState
             /\ graph'.recognizing <=> graph.connectionState = "CONNECTED"
      ]_vars

\* the recognizer has just ended in a connected session and runs again
C27_Witness ==
    /\ \E k \in DOMAIN obs.ev : obs.ev[k].kind = "recognitionEnd"
    /\ graph.connectionState = "CONNECTED"
    /\ graph.recognizing


\* C28: totalQuestions is 7 for a duration of 30 or more, 5 for a duration
\* from 20 up to 30, 3 below 20, and no step of the session changes it.
C28_TotalQuestionsFixed ==
    /\ [](graph.totalQuestions =
             IF graph.duration >= 30 THEN 7
             ELSE IF graph.duration >= 20 THEN 5 ELSE 3)
    /\ [][graph'.totalQuestions = graph.totalQuestions]_vars

\* an interview of exactly 30 minutes with assessments already logged
C28_Witness ==
    /\ graph.duration = 30
    /\ graph.totalQuestions = 7
    /\ Len(graph.analyses) >= 2


\* a disconnect() call that asked its session to close has not finished its
\* cleanup: it waits for session.close() or for audioContext.close()
Closing == client.awaitClose > 0 \/ obs.closing > 0

\* C30: a step that asks a session to close leaves the open flag false,
\* and while a disconnect() call that asked its session to close has not
\* finished its cleanup no capture tick and no inbound message transmits
\* anything or schedules a playback buffer.
C30_CallbacksIdleWhileClosing ==
    /\ [][ net'.closeReq \ net.closeReq # {}
             => ~client'.isSessionOpen ]_vars
    /\ [][ ( /\ Closing
             /\ \/ \E p \in ConnIds, loud \in BOOLEAN : CaptureTick(p, loud)
                \/ \E c \in ConnIds, msg \in OneSecondAudio :
                       OnMessage(c, msg) )
             => /\ \A k \in DOMAIN obs'.ev : obs'.ev[k].kind \notin TxKinds
                /\ net'.sources = net.sources ]_vars


\* connection c has been replaced: a connection of a later connect() is open
Superseded(c) == \E j \in ConnIds : j > c /\ net.conn[j] = "open"

\* C31: the close event and the error event of a connection that a later,
\* open connection has replaced leave the open flag and the connection
\* state as they were.
C31_StaleEventsIgnored ==
    [][ \A c \in ConnIds :
          ( /\ Superseded(c)
            /\ OnClose(c) \/ OnError(c) )
          => /\ client'.isSessionOpen = client.isSessionOpen
             /\ graph'.connectionState = graph.connectionState ]_vars


\* C32: when the connect() of an invocation that replaced an existing
\* connection resolves on an open channel, and the caller has not stopped
\* the session since, the client holds the new session handle and the new
\* audio context, that context has not been closed, and startAudioInput()
\* has installed the invocation's capture processor.
C32_TeardownSparesNewConnection ==
    [][ \A i \in ConnIds :
          ( /\ i \in obs.replaced
            /\ net.conn[i] = "open"
            /\ ~obs.stopped
            /\ ConnectResolved(i) )
          => /\ client'.session = i
             /\ client'.audioContext = i
             /\ i \notin net'.ctxClosed
             /\ client'.inputProcessor = i ]_vars


\* C33: the connection state leaves ERROR only in a step in which the
\* caller calls startSession() or stopSession(); in particular the close
\* event that follows an error event leaves it ERROR.
C33_ErrorStaysUntilCallerActs ==
    [][ ( /\ graph.connectionState = "ERROR"
          /\ graph'.connectionState # "ERROR" )
          => \/ \E i \in ConnIds : StartSession(i)
             \/ StopSession ]_vars


\* C34: the assessment log never holds more than totalQuestions entries,
\* the question counter never exceeds totalQuestions, at most one grace
\* timer is pending, and a wrap-up is issued only by the call that takes
\* the counter to totalQuestions: a save_assessment call that arrives with
\* the counter already there changes none of these.
C34_NothingAfterLastQuestion ==
    /\ [] /\ Len(graph.analyses) <= graph.totalQuestions
          /\ graph.currentQuestionIndex <= graph.totalQuestions
          /\ Len(graph.timers) <= 1
    /\ [][ WrapUpCalled
             => graph.currentQuestionIndex < graph.totalQuestions ]_vars
    /\ [][ ( /\ HandledAssessment
             /\ graph.currentQuestionIndex >= graph.totalQuestions )
             => /\ graph'.analyses = graph.analyses
                /\ graph'.currentQuestionIndex = graph.currentQuestionIndex
                /\ graph'.timers = graph.timers ]_vars


\* C35: the first grace timer to fire, when it is the only one pending,
\* does nothing if the caller has called stopSession() since the session
\* was started, or if a connect() has been made since the timer was armed:
\* the completion callback does not run, no session is asked to close, and
\* the open flag and the connection state stay as they are.
C35_StaleGraceTimerIdle ==
    [][ \A k \in 1..MaxAssess :
          ( /\ obs.onEndCalls = 0
            /\ Len(graph.timers) = 1
            /\ obs.stopped \/ obs.armedBefore # {}
            /\ GraceTimerFires(k) )
          => /\ obs'.onEndCalls = 0
             /\ net'.closeReq = net.closeReq
             /\ client'.isSessionOpen = client.isSessionOpen
             /\ graph'.connectionState = graph.connectionState ]_vars


\* C36: the first buffer scheduled on the audio context of a connect()
\* starts at the time that context's clock showed when it was scheduled.
C36_PlaybackClockStartsAfresh ==
    \A k \in DOMAIN net.sources :
        (\A j \in 1..(k - 1) : net.sources[j].ctx # net.sources[k].ctx)
          => net.sources[k].start = net.sources[k].at


\* the ticks of the speech window that heard speech less than
\* SILENCE_TIMEOUT ago
RecentSpeech ==
    { k \in DOMAIN analysis.speechHistory :
        /\ analysis.speechHistory[k].isSpeech
        /\ analysis.speechHistory[k].age < SILENCE_TIMEOUT }

\* C37: after every audio tick of the running engine: when no tick of the
\* last 500 ms heard speech, speechRate is 0 and pauseRatio 100; when one
\* did, also as the only one and followed by silent ticks, speechRate is
\* above 0 and pauseRatio below 100; and no entry of the speech window is
\* older than 500 ms.
C37_HangoverOfSpeechMetrics ==
    [][ ( /\ analysis.isRunning /\ analysis.analyser
          /\ \E rms \in RmsInputs : AudioFrame(rms) )
          => LET m == analysis'.currentMetrics
             IN  /\ RecentSpeech' = {}
                      => m.speechRate = 0 /\ m.pauseRatio = 1000
                 /\ RecentSpeech' # {}
                      => m.speechRate > 0 /\ m.pauseRatio < 1000
                 /\ \A k \in DOMAIN analysis'.speechHistory :
                        analysis'.speechHistory[k].age <= WINDOW_MS ]_vars

\* a tick that heard speech, time passing, and a silent tick within the
\* 500 ms after it: the engine still reports speech
C37_Witness ==
    /\ Len(analysis.speechHistory) = 2
    /\ analysis.speechHistory[1].isSpeech
    /\ analysis.speechHistory[1].age > 0
    /\ analysis.speechHistory[1].age < SILENCE_TIMEOUT
    /\ ~analysis.speechHistory[2].isSpeech
    /\ analysis.speechHistory[2].age = 0
    /\ analysis.currentMetrics.speechRate = 75
    /\ analysis.currentMetrics.pauseRatio = 500


\* the number of looking frames in the gaze history h
Looking(h) == Cardinality({ k \in DOMAIN h : h[k] })

C39_ConfidenceOfLandmarkFrame ==
    [][ \A f \in Faces :
          FaceResults(f)
          => LET m == analysis'.currentMetrics
                 rate == analysis.currentMetrics.speechRate
                 pace == IF rate < 80 THEN 60
                         ELSE IF rate > 180 THEN 70 ELSE 100
             IN  /\ ~f.face
                      => /\ m.eyeContact = 0
                         /\ m.confidence = 0
                         /\ analysis'.gazeHistory = analysis.gazeHistory
                 /\ (f.face /\ rate = 0)
                      => m.confidence = m.eyeContact
                 /\ (f.face /\ rate > 0)
                      => m.confidence =
                           (2 * (4 * m.eyeContact + 3 * m.volumeStability
                                   + 3 * pace) + 10) \div 20 ]_vars

\* a frame with a face, looking, taken while the candidate speaks slowly
\* with a steady voice: 0.4 x 100 + 0.3 x 100 + 0.3 x 60
C39_Witness ==
    /\ analysis.gazeHistory = << TRUE >>
    /\ analysis.currentMetrics.speechRate \in 1..79
    /\ analysis.currentMetrics.eyeContact = 100
    /\ analysis.currentMetrics.volumeStability = 100
    /\ analysis.currentMetrics.confidence = 88

=============================================================================
